---- MODULE Spec2Model ----
(***************************************************************************)
(* Model of the OVSDBCluster reconciler                                    *)
(* (controllers/ovsdbcluster_controller.go).                               *)
(*                                                                         *)
(* The store holds one Cluster, its Members (OVSDBServer objects) and      *)
(* their Instances (Pods).  A Member or Pod named "<cluster>-<i>" is held  *)
(* under the index i.  A nil ClusterID is "", a nil RaftAddress is 0.     *)
(***************************************************************************)
EXTENDS Integers, Sequences, FiniteSets, TLC

\* ------------------------------------------------------------------ bounds
\* Largest spec.replicas the user sets.
MaxReplicas == 2
\* Largest spec.replicas of a cluster that scales up (SpecScale).
MaxScale == 4
\* Names the store can hold: <cluster>-0 .. <cluster>-(MaxMembers - 1).
MaxMembers == 5
\* Members removed from the store by something other than the reconciler.
MaxRemovals == 1
\* Changes of the store since the last call of Reconcile: the scheduler calls
\* Reconcile when the Cluster or an object it owns changes.
MaxChanges == 1
\* Reconcile calls in which a store call fails.
MaxFaults == 1
\* Reconcile calls for the one cluster that run at the same time, and the
\* largest spec.replicas of the cluster they run on (SpecInterleaved).
MaxWorkers == 2
MaxRescale == 3

Idx == 0..(MaxMembers - 1)
\* A nil *string is "".  Two distinct ClusterIDs are what a mismatch takes.
ClusterIDs == {"x", "y"}

\* --------------------------------------------------------------- variables
VARIABLES
    cluster,     \* the Cluster object: spec and persisted status
    serverStore, \* Idx -> Member object (exists = FALSE when absent)
    podStore,    \* Idx -> Pod object (exists = FALSE when absent)
    removals,    \* external Member removals so far
    changes,     \* changes of the store since the last Reconcile call
    faults,      \* Reconcile calls so far in which a store call failed
    cyc,         \* what the Reconcile call that just returned did
    inflight,    \* worker -> what its Reconcile call in progress has read
    maxTarget    \* largest targetServers an interleaved call has computed

vars == <<cluster, serverStore, podStore, removals, changes, faults, cyc,
          inflight, maxTarget>>

\* ------------------------------------------------------------ object shapes
NoFailure == [set |-> FALSE, reason |-> "", servers |-> <<>>, got |-> "", expected |-> ""]

\* Zero value of OVSDBClusterStatus.
ZeroStatus ==
    [clusterID |-> "", clusterSize |-> 0, clusterQuorum |-> 0,
     availableServers |-> 0, available |-> FALSE, failed |-> NoFailure]

ZeroServerStatus ==
    [available |-> FALSE, failed |-> FALSE, clusterID |-> "", raftAddress |-> 0]

NoServer ==
    [exists |-> FALSE, spec |-> [clusterID |-> "", initPeers |-> <<>>],
     status |-> ZeroServerStatus]

NoPod == [exists |-> FALSE, ready |-> FALSE, cfg |-> ""]

\* The raft address a Member reports, once known, is its own.
AddressOf(i) == i + 1

\* ------------------------------------------------------------------- names
\* fmt.Sprintf("%s-%d", cluster.Name, i): the decimal digits of i after the
\* common prefix.
Digits(n) == IF n < 10 THEN <<n>> ELSE <<n \div 10, n % 10>>

\* Go's string order on two names of the same cluster.
NameLess(i, j) ==
    LET a == Digits(i)
        b == Digits(j)
    IN  \/ a[1] < b[1]
        \/ a[1] = b[1] /\ Len(a) < Len(b)
        \/ a[1] = b[1] /\ Len(a) = 2 /\ Len(b) = 2 /\ a[2] < b[2]

RECURSIVE SortNames(_)
SortNames(S) ==
    IF S = {} THEN <<>>
    ELSE LET m == CHOOSE x \in S : \A y \in S \ {x} : NameLess(x, y)
         IN  <<m>> \o SortNames(S \ {m})

\* ------------------------------------------------------------- observation
getServers(store) ==
    LET names == SortNames({i \in Idx : store[i].exists})
    IN  [k \in 1..Len(names) |->
            [name |-> names[k], spec |-> store[names[k]].spec,
             status |-> store[names[k]].status]]

getServerPods(store) ==
    LET names == SortNames({i \in Idx : store[i].exists})
    IN  [k \in 1..Len(names) |->
            [name |-> names[k], ready |-> store[names[k]].ready,
             cfg |-> store[names[k]].cfg]]

\* Index in the list of the object of that name, 0 when there is none (nil).
findServer(servers, name) ==
    IF \E k \in 1..Len(servers) : servers[k].name = name
    THEN CHOOSE k \in 1..Len(servers) :
             servers[k].name = name /\ \A j \in 1..(k - 1) : servers[j].name # name
    ELSE 0

findPod(serverPods, name) ==
    IF \E k \in 1..Len(serverPods) : serverPods[k].name = name
    THEN CHOOSE k \in 1..Len(serverPods) :
             serverPods[k].name = name /\ \A j \in 1..(k - 1) : serverPods[j].name # name
    ELSE 0

\* ------------------------------------------------- availability and quorum
RECURSIVE CountAvailable(_, _)
CountAvailable(servers, i) ==
    IF i > Len(servers) THEN 0
    ELSE (IF servers[i].status.available THEN 1 ELSE 0) + CountAvailable(servers, i + 1)

clusterSizeOf(servers) == CountAvailable(servers, 1)

\* int(math.Ceil(float64(clusterSize) / 2))
clusterQuorumOf(clusterSize) ==
    IF clusterSize % 2 = 0 THEN clusterSize \div 2 ELSE clusterSize \div 2 + 1

RECURSIVE CountReady(_, _)
CountReady(serverPods, i) ==
    IF i > Len(serverPods) THEN 0
    ELSE (IF serverPods[i].ready THEN 1 ELSE 0) + CountReady(serverPods, i + 1)

nAvailableOf(serverPods) == CountReady(serverPods, 1)

\* ------------------------------------------------------- status conditions
UnsetFailed(st) == [st EXCEPT !.failed = NoFailure]

SetFailed(st, reason, names, got, expected) ==
    [st EXCEPT !.failed = [set |-> TRUE, reason |-> reason, servers |-> names,
                            got |-> got, expected |-> expected]]

\* Variant of SetAvailability with the quorum as a strict majority.
SetAvailabilityMajority(st, servers, serverPods) ==
    LET clusterSize == clusterSizeOf(servers)
        clusterQuorum == clusterSize \div 2 + 1
        nAvailable == nAvailableOf(serverPods)
    IN  [st EXCEPT !.available = (nAvailable >= clusterQuorum /\ nAvailable > 0),
                   !.availableServers = nAvailable,
                   !.clusterSize = clusterSize,
                   !.clusterQuorum = clusterQuorum]

SetAvailability(st, servers, serverPods) ==
    LET clusterSize == clusterSizeOf(servers)
        clusterQuorum == clusterQuorumOf(clusterSize)
        nAvailable == nAvailableOf(serverPods)
    IN  [st EXCEPT !.available = (nAvailable >= clusterQuorum /\ nAvailable > 0),
                   !.availableServers = nAvailable,
                   !.clusterSize = clusterSize,
                   !.clusterQuorum = clusterQuorum]

\* The body of the loop that reports failed servers.  The list of failed
\* names is declared inside the body, so it starts empty for every server.
FailedStep(st, server) ==
    LET failed == IF server.status.failed THEN <<server.name>> ELSE <<>>
    IN  IF Len(failed) > 0 THEN SetFailed(st, "Bootstrap", failed, "", "") ELSE st

\* for i := 0; i < len(servers); i++
RECURSIVE FailedLoop(_, _, _)
FailedLoop(st, servers, i) ==
    IF i > Len(servers) THEN st
    ELSE FailedLoop(FailedStep(st, servers[i]), servers, i + 1)

\* Variant of ClusterIDStep that takes the ClusterID of a server that
\* reports another one.
ClusterIDStepAdopting(st, server) ==
    IF server.status.clusterID # ""
    THEN [st EXCEPT !.clusterID = server.status.clusterID]
    ELSE st

\* The body of the loop that sets or compares the ClusterID.
ClusterIDStep(st, server) ==
    IF st.clusterID = ""
    THEN [st EXCEPT !.clusterID = server.status.clusterID]
    ELSE IF server.status.clusterID # "" /\ st.clusterID # server.status.clusterID
         THEN SetFailed(st, "Inconsistent", <<server.name>>,
                        server.status.clusterID, st.clusterID)
         ELSE st

\* for _, server := range servers
RECURSIVE ClusterIDLoop(_, _, _)
ClusterIDLoop(st, servers, i) ==
    IF i > Len(servers) THEN st
    ELSE ClusterIDLoop(ClusterIDStep(st, servers[i]), servers, i + 1)

\* Variant of Project that compares the ClusterIDs before it reports the
\* failed servers.
ProjectFailedLast(orig, servers, serverPods) ==
    FailedLoop(
        ClusterIDLoop(SetAvailability(UnsetFailed(orig), servers, serverPods), servers, 1),
        servers, 1)

\* Variant of Project that does not unset the Failed condition first.
ProjectKeepingFailed(orig, servers, serverPods) ==
    ClusterIDLoop(
        FailedLoop(SetAvailability(orig, servers, serverPods), servers, 1),
        servers, 1)

\* Status projection: the in-memory status when Reconcile reaches the
\* statusChanged() test, from the status read and the two lists.
Project(orig, servers, serverPods) ==
    ClusterIDLoop(
        FailedLoop(SetAvailability(UnsetFailed(orig), servers, serverPods), servers, 1),
        servers, 1)

\* ------------------------------------------------------- membership scaling
\* Variant of targetServersOf that does not hold a cluster without a
\* ClusterID at one server.
targetServersAnyID(replicas, st) == IF replicas = 0 THEN 1 ELSE replicas

\* Variant of targetServersOf that never scales beyond the seed Member.
targetServersSeedOnly(replicas, st) == 1

\* The target of the scale-up loop.
targetServersOf(replicas, st) ==
    LET t == IF replicas = 0 THEN 1 ELSE replicas
    IN  IF st.clusterID = "" THEN 1 ELSE t

\* Variant of nextServerName that names after the last listed server.
nextServerNameAfterLast(servers) ==
    IF Len(servers) = 0 THEN 0 ELSE servers[Len(servers)].name + 1

\* The first name <cluster>-<i>, i = 0, 1, ..., that findServer does not find.
nextServerName(servers) ==
    CHOOSE i \in 0..MaxMembers :
        /\ findServer(servers, i) = 0
        /\ \A j \in 0..(i - 1) : findServer(servers, j) # 0

\* Variant of IsInitPeer that does not test the peer's address.
IsInitPeerAnyAddress(name, peer) == peer.name # name

\* The test on a peer in serverApply's loop.
IsInitPeer(name, peer) == peer.name # name /\ peer.status.raftAddress # 0

\* for _, peer := range allServers
RECURSIVE InitPeersFrom(_, _, _)
InitPeersFrom(name, allServers, i) ==
    IF i > Len(allServers) THEN <<>>
    ELSE (IF IsInitPeer(name, allServers[i])
          THEN <<allServers[i].status.raftAddress>> ELSE <<>>)
         \o InitPeersFrom(name, allServers, i + 1)

\* The fields serverApply writes that vary in this model (DBType,
\* ClusterName, the label and the storage hints are the same for every
\* Member of the cluster).
serverApply(st, name, allServers) ==
    [clusterID |-> st.clusterID, initPeers |-> InitPeersFrom(name, allServers, 1)]

\* The state of the acting part of a cycle: the stores as written so far,
\* the working availability count, the store writes issued, the error that
\* ended it and the log of what was done.
StartActing(sStore, pStore, nAvailable) ==
    [servers |-> sStore, pods |-> pStore, nAvailable |-> nAvailable,
     calls |-> 0, err |-> "nil", serverOps |-> <<>>, podOps |-> <<>>]

\* Variant of CreateOrUpdateServer that creates a Member under the first
\* free name when the store already holds the name it was given.
CreateOrUpdateServerFreshName(a, st, name, servers, failAt) ==
    LET n == a.calls + 1
        free == {i \in Idx : ~a.servers[i].exists}
        fresh == IF a.servers[name].exists /\ free # {}
                 THEN CHOOSE i \in free : \A j \in free : i <= j
                 ELSE name
    IN  IF n = failAt
        THEN [a EXCEPT !.calls = n, !.err = "createServer"]
        ELSE IF ~a.servers[fresh].exists
        THEN [a EXCEPT !.calls = n,
                       !.servers[fresh] = [exists |-> TRUE,
                                           spec |-> serverApply(st, fresh, servers),
                                           status |-> ZeroServerStatus],
                       !.serverOps = Append(@, [name |-> fresh, op |-> "created"])]
        ELSE [a EXCEPT !.calls = n,
                       !.serverOps = Append(@, [name |-> name, op |-> "unchanged"])]

\* controllerutil.CreateOrUpdate(ctx, r.Client, server, apply): create the
\* Member when the store has none of that name, else update it when apply
\* changes it.
CreateOrUpdateServer(a, st, name, servers, failAt) ==
    LET n == a.calls + 1
        spec == serverApply(st, name, servers)
    IN  IF n = failAt
        THEN [a EXCEPT !.calls = n, !.err = "createServer"]
        ELSE IF ~a.servers[name].exists
        THEN [a EXCEPT !.calls = n,
                       !.servers[name] = [exists |-> TRUE, spec |-> spec,
                                          status |-> ZeroServerStatus],
                       !.serverOps = Append(@, [name |-> name, op |-> "created"])]
        ELSE IF a.servers[name].spec = spec
        THEN [a EXCEPT !.calls = n,
                       !.serverOps = Append(@, [name |-> name, op |-> "unchanged"])]
        ELSE [a EXCEPT !.calls = n,
                       !.servers[name].spec = spec,
                       !.serverOps = Append(@, [name |-> name, op |-> "updated"])]

\* for i := len(servers); i < targetServers; i++
RECURSIVE ScaleLoop(_, _, _, _, _, _)
ScaleLoop(a, st, servers, targetServers, failAt, i) ==
    IF i >= targetServers \/ a.err # "nil" THEN a
    ELSE ScaleLoop(
             CreateOrUpdateServer(a, st, nextServerName(servers), servers, failAt),
             st, servers, targetServers, failAt, i + 1)

\* ------------------------------------------------- instance reconciliation
\* Scale to zero: r.Delete of every listed pod.
RECURSIVE DeleteLoop(_, _, _, _)
DeleteLoop(a, serverPods, failAt, i) ==
    IF i > Len(serverPods) \/ a.err # "nil" THEN a
    ELSE LET n == a.calls + 1
             name == serverPods[i].name
             a1 == IF n = failAt
                   THEN [a EXCEPT !.calls = n, !.err = "deletePod"]
                   ELSE [a EXCEPT !.calls = n,
                                  !.pods[name] = NoPod,
                                  !.podOps = Append(@, [name |-> name, op |-> "deleted",
                                                        existed |-> TRUE,
                                                        nAvailable |-> a.nAvailable])]
         IN  DeleteLoop(a1, serverPods, failAt, i + 1)

\* CreateOrDelete(r, ctx, serverPod, apply): create the pod when the store
\* has none of that name; delete it, so that a later cycle recreates it,
\* when apply would change it; else do nothing.  The result names what was
\* done ("none": OperationResultNone).
CreateOrDelete(pods, name, cfg) ==
    IF ~pods[name].exists
    THEN [op |-> "created",
          pods |-> [pods EXCEPT ![name] = [exists |-> TRUE, ready |-> FALSE, cfg |-> cfg]]]
    ELSE IF pods[name].cfg = cfg
    THEN [op |-> "none", pods |-> pods]
    ELSE [op |-> "deleted", pods |-> [pods EXCEPT ![name] = NoPod]]

\* Variant of ApplyPod that leaves the working count as it is.
ApplyPodNoDecrement(a, name, existed, cfg, failAt) ==
    LET n == a.calls + 1
        r == CreateOrDelete(a.pods, name, cfg)
    IN  IF n = failAt
        THEN [a EXCEPT !.calls = n, !.err = "updatePod"]
        ELSE [a EXCEPT !.calls = n,
                       !.pods = r.pods,
                       !.podOps = IF r.op = "none" THEN @
                                  ELSE Append(@, [name |-> name, op |-> r.op,
                                                  existed |-> existed,
                                                  nAvailable |-> a.nAvailable])]

\* Variant of ApplyPod that replaces a pod that exists whether or not apply
\* would change it.
ApplyPodRecreate(a, name, existed, cfg, failAt) ==
    LET n == a.calls + 1
        r == IF a.pods[name].exists
             THEN [op |-> "deleted", pods |-> [a.pods EXCEPT ![name] = NoPod]]
             ELSE CreateOrDelete(a.pods, name, cfg)
    IN  IF n = failAt
        THEN [a EXCEPT !.calls = n, !.err = "updatePod"]
        ELSE [a EXCEPT !.calls = n,
                       !.pods = r.pods,
                       !.podOps = IF r.op = "none" THEN @
                                  ELSE Append(@, [name |-> name, op |-> r.op,
                                                  existed |-> existed,
                                                  nAvailable |-> a.nAvailable]),
                       !.nAvailable = IF r.op # "none" THEN @ - 1 ELSE @]

\* The call of CreateOrDelete for the pod of a server and what follows it:
\* the error return, and the working count one lower when the pod was
\* created or replaced.
ApplyPod(a, name, existed, cfg, failAt) ==
    LET n == a.calls + 1
        r == CreateOrDelete(a.pods, name, cfg)
    IN  IF n = failAt
        THEN [a EXCEPT !.calls = n, !.err = "updatePod"]
        ELSE [a EXCEPT !.calls = n,
                       !.pods = r.pods,
                       !.podOps = IF r.op = "none" THEN @
                                  ELSE Append(@, [name |-> name, op |-> r.op,
                                                  existed |-> existed,
                                                  nAvailable |-> a.nAvailable]),
                       !.nAvailable = IF r.op # "none" THEN @ - 1 ELSE @]

\* Variant of SkipPod whose quorum test is off by one.
SkipPodAtQuorum(server, existed, clusterSize, clusterQuorum, nAvailable) ==
    \/ ~server.status.available
    \/ existed /\ clusterSize >= 3 /\ nAvailable < clusterQuorum

\* Variant of SkipPod without the test of the server's availability.
SkipPodAnyServer(server, existed, clusterSize, clusterQuorum, nAvailable) ==
    existed /\ clusterSize >= 3 /\ nAvailable <= clusterQuorum

\* The test that skips the pod of a server: TRUE when the pod is left alone.
SkipPod(server, existed, clusterSize, clusterQuorum, nAvailable) ==
    \/ ~server.status.available
    \/ existed /\ clusterSize >= 3 /\ nAvailable <= clusterQuorum

\* for i := 0; i < len(servers); i++ (the loop over the listed servers)
RECURSIVE PodLoop(_, _, _, _, _, _, _, _)
PodLoop(a, servers, serverPods, clusterSize, clusterQuorum, cfg, failAt, i) ==
    IF i > Len(servers) \/ a.err # "nil" THEN a
    ELSE LET server == servers[i]
             existed == findPod(serverPods, server.name) # 0
             a1 == IF SkipPod(server, existed, clusterSize, clusterQuorum, a.nAvailable)
                   THEN a
                   ELSE ApplyPod(a, server.name, existed, cfg, failAt)
         IN  PodLoop(a1, servers, serverPods, clusterSize, clusterQuorum, cfg,
                     failAt, i + 1)

\* Variant of Act without the scale-to-zero branch.
ActNoScaleToZero(c, st, servers, serverPods, sStore, pStore, failAt) ==
    LET clusterSize == clusterSizeOf(servers)
        clusterQuorum == clusterQuorumOf(clusterSize)
        a0 == StartActing(sStore, pStore, nAvailableOf(serverPods))
        a1 == ScaleLoop(a0, st, servers, targetServersOf(c.spec.replicas, st),
                        failAt, Len(servers))
    IN  IF a1.err # "nil" THEN a1
        ELSE PodLoop(a1, servers, serverPods, clusterSize, clusterQuorum,
                     c.spec.podCfg, failAt, 1)

\* Variant of Act that scales down: it removes the last listed Member when
\* more Members are listed than the target.
ActScalingDown(c, st, servers, serverPods, sStore, pStore, failAt) ==
    LET clusterSize == clusterSizeOf(servers)
        clusterQuorum == clusterQuorumOf(clusterSize)
        targetServers == targetServersOf(c.spec.replicas, st)
        a0 == StartActing(sStore, pStore, nAvailableOf(serverPods))
        a1 == ScaleLoop(a0, st, servers, targetServers, failAt, Len(servers))
        a2 == IF Len(servers) > targetServers
              THEN [a1 EXCEPT !.servers[servers[Len(servers)].name] = NoServer]
              ELSE a1
    IN  IF a2.err # "nil" THEN a2
        ELSE IF c.spec.replicas = 0
        THEN DeleteLoop(a2, serverPods, failAt, 1)
        ELSE PodLoop(a2, servers, serverPods, clusterSize, clusterQuorum,
                     c.spec.podCfg, failAt, 1)

\* Everything Reconcile does after the statusChanged() test.
Act(c, st, servers, serverPods, sStore, pStore, failAt) ==
    LET clusterSize == clusterSizeOf(servers)
        clusterQuorum == clusterQuorumOf(clusterSize)
        a0 == StartActing(sStore, pStore, nAvailableOf(serverPods))
        a1 == ScaleLoop(a0, st, servers, targetServersOf(c.spec.replicas, st),
                        failAt, Len(servers))
    IN  IF a1.err # "nil" THEN a1
        ELSE IF c.spec.replicas = 0
        THEN DeleteLoop(a1, serverPods, failAt, 1)
        ELSE PodLoop(a1, servers, serverPods, clusterSize, clusterQuorum,
                     c.spec.podCfg, failAt, 1)

\* --------------------------------------------------------------- the cycle
\* The store calls that fail in one Reconcile call: a List call, the
\* writeFailAt-th write of a Member or Pod (0: none), the status update.
NoFault == [list |-> "none", writeFailAt |-> 0, updateStatus |-> FALSE]

\* A write fails only in a call that gets both lists, and such a call saves
\* the status only when it issues no write.
Faults ==
    {NoFault}
    \cup [list : {"servers", "pods"}, writeFailAt : {0}, updateStatus : BOOLEAN]
    \cup {[NoFault EXCEPT !.writeFailAt = n] : n \in 1..2}
    \cup {[NoFault EXCEPT !.updateStatus = TRUE]}

\* What a Reconcile call did, for the state it returns in.
CycleLog(path, err, orig, mem, servers, serverPods, a, statusWrites, statusSaved) ==
    [path |-> path, err |-> err, orig |-> orig, mem |-> mem,
     servers |-> servers, serverPods |-> serverPods,
     serverOps |-> a.serverOps, podOps |-> a.podOps,
     statusWrites |-> statusWrites, statusSaved |-> statusSaved]

Idle ==
    CycleLog("idle", "nil", ZeroStatus, ZeroStatus, <<>>, <<>>,
             StartActing(<<>>, <<>>, 0), 0, FALSE)

\* Variant of Deferred that returns the error of the status update whatever
\* the call had returned.
DeferredMasking(c, mem, err, fault) ==
    LET changed == mem # c.status
        saved == changed /\ ~fault.updateStatus
    IN  [status |-> IF saved THEN mem ELSE c.status,
         err |-> IF changed /\ fault.updateStatus THEN "updateStatus" ELSE err,
         statusWrites |-> IF changed THEN 1 ELSE 0,
         statusSaved |-> saved]

\* The deferred function: save the status when it changed; a failure of the
\* save is returned only when the call had no error of its own.
Deferred(c, mem, err, fault) ==
    LET changed == mem # c.status
        saved == changed /\ ~fault.updateStatus
    IN  [status |-> IF saved THEN mem ELSE c.status,
         err |-> IF changed /\ fault.updateStatus /\ err = "nil"
                 THEN "updateStatus" ELSE err,
         statusWrites |-> IF changed THEN 1 ELSE 0,
         statusSaved |-> saved]

\* Variant of PathOf that goes on after a change of the status.
PathOfNoEarlyExit(fault, orig, mem) ==
    IF fault.list = "servers" THEN "listServersError"
    ELSE IF fault.list = "pods" THEN "listPodsError"
    ELSE "acted"

\* Variant of PathOf that goes on when the list of pods fails.
PathOfIgnoringPodList(fault, orig, mem) ==
    IF fault.list = "servers" THEN "listServersError"
    ELSE IF mem # orig THEN "earlyExit"
    ELSE "acted"

\* How far a Reconcile call gets: it returns when a List call fails, and
\* after status projection when statusChanged() holds.
PathOf(fault, orig, mem) ==
    IF fault.list = "servers" THEN "listServersError"
    ELSE IF fault.list = "pods" THEN "listPodsError"
    ELSE IF mem # orig THEN "earlyExit"
    ELSE "acted"

\* One Reconcile call on the Cluster object c read from the store, with the
\* lists `servers` and `serverPods` it gets and the stores it writes to.
Cycle(c, servers, serverPods, sStore, pStore, fault) ==
    LET a0 == StartActing(sStore, pStore, 0)
        unset == UnsetFailed(c.status)
        mem == Project(c.status, servers, serverPods)
        path == PathOf(fault, c.status, mem)
        a == IF path = "acted"
             THEN Act(c, mem, servers, serverPods, sStore, pStore, fault.writeFailAt)
             ELSE a0
        memEnd == IF path \in {"listServersError", "listPodsError"} THEN unset ELSE mem
        err == IF path = "listServersError" THEN "listServers"
               ELSE IF path = "listPodsError" THEN "listPods"
               ELSE a.err
        d == Deferred(c, memEnd, err, fault)
    IN  [status |-> d.status, servers |-> a.servers, pods |-> a.pods,
         log |-> CycleLog(path, d.err, c.status, memEnd,
                          IF path = "listServersError" THEN <<>> ELSE servers,
                          IF path \in {"listServersError", "listPodsError"}
                          THEN <<>> ELSE serverPods,
                          a, d.statusWrites, d.statusSaved)]

\* ------------------------------------------------------------------ actions
Workers == 1..MaxWorkers

\* What a Reconcile call in progress holds: nothing, the Cluster object it
\* got, or that and the lists of Members and Pods.
NoObservation ==
    [phase |-> "none", c |-> [spec |-> [replicas |-> 0, podCfg |-> ""], status |-> ZeroStatus],
     servers |-> <<>>, serverPods |-> <<>>]

\* No Reconcile call is in progress (a call that runs from start to return
\* in one step is never in progress).
NoneInFlight ==
    /\ inflight = [w \in Workers |-> NoObservation]
    /\ maxTarget = 0

Init ==
    /\ cluster = [spec |-> [replicas |-> 1, podCfg |-> "v1"], status |-> ZeroStatus]
    /\ serverStore = [i \in Idx |-> NoServer]
    /\ podStore = [i \in Idx |-> NoPod]
    /\ removals = 0
    /\ changes = 0
    /\ faults = 0
    /\ cyc = Idle
    /\ NoneInFlight

\* One call of Reconcile, start to return.
ReconcileWith(fault) ==
        LET r == Cycle(cluster, getServers(serverStore), getServerPods(podStore),
                       serverStore, podStore, fault)
            faulty == IF fault = NoFault THEN 0 ELSE 1
        IN  /\ faults + faulty <= MaxFaults
            /\ faults' = faults + faulty
            /\ cluster' = [cluster EXCEPT !.status = r.status]
            /\ serverStore' = r.servers
            /\ podStore' = r.pods
            /\ cyc' = r.log
            /\ changes' = 0
            /\ UNCHANGED <<removals, inflight, maxTarget>>

Reconcile == \E fault \in Faults : ReconcileWith(fault)

\* A call of Reconcile in which every store call succeeds.
ReconcileOK == ReconcileWith(NoFault)

\* A change of the store by something other than the reconciler.
Changed ==
    /\ changes < MaxChanges
    /\ changes' = changes + 1
    /\ cyc' = Idle
    /\ UNCHANGED <<faults, inflight, maxTarget>>

\* The user changes spec.replicas.
SetReplicas ==
    \E n \in 0..MaxReplicas :
        /\ n # cluster.spec.replicas
        /\ cluster' = [cluster EXCEPT !.spec.replicas = n]
        /\ Changed
        /\ UNCHANGED <<serverStore, podStore, removals>>

\* The user changes a part of the spec that the pods are built from: one
\* upgrade, from the configuration the cluster started with to the next.
SetPodCfg ==
    /\ cluster.spec.podCfg = "v1"
    /\ cluster' = [cluster EXCEPT !.spec.podCfg = "v2"]
    /\ Changed
    /\ UNCHANGED <<serverStore, podStore, removals>>

\* The statuses the bootstrap agent writes on Member i: nothing yet, its
\* raft address, failed, or Available in the cluster it joined.
AgentStatuses(i) ==
    {ZeroServerStatus,
     [ZeroServerStatus EXCEPT !.raftAddress = AddressOf(i)],
     [ZeroServerStatus EXCEPT !.failed = TRUE]}
    \cup {[available |-> TRUE, failed |-> FALSE, clusterID |-> id,
           raftAddress |-> AddressOf(i)] : id \in ClusterIDs}

\* The bootstrap agent writes the status of a Member.
AgentReport ==
    \E i \in Idx : \E st \in AgentStatuses(i) :
        /\ serverStore[i].exists
        /\ st # serverStore[i].status
        /\ serverStore' = [serverStore EXCEPT ![i].status = st]
        /\ Changed
        /\ UNCHANGED <<cluster, podStore, removals>>

\* A pod becomes ready or stops being ready.
PodReadiness ==
    \E i \in Idx :
        /\ podStore[i].exists
        /\ podStore' = [podStore EXCEPT ![i].ready = ~@]
        /\ Changed
        /\ UNCHANGED <<cluster, serverStore, removals>>

\* Something other than the reconciler removes a Member from the store.
RemoveMember ==
    \E i \in Idx :
        /\ serverStore[i].exists
        /\ removals < MaxRemovals
        /\ serverStore' = [serverStore EXCEPT ![i] = NoServer]
        /\ removals' = removals + 1
        /\ Changed
        /\ UNCHANGED <<cluster, podStore>>

\* The user raises or lowers spec.replicas of a running cluster.
SetScale ==
    \E n \in 1..MaxScale :
        /\ n # cluster.spec.replicas
        /\ cluster' = [cluster EXCEPT !.spec.replicas = n]
        /\ Changed
        /\ UNCHANGED <<serverStore, podStore, removals>>

\* The status of Member i once it has joined the cluster id.
Joined(i, id) ==
    [available |-> TRUE, failed |-> FALSE, clusterID |-> id, raftAddress |-> AddressOf(i)]

\* The bootstrap agent reports that a Member has joined the one cluster.
AgentJoin ==
    \E i \in Idx :
        /\ serverStore[i].exists
        /\ ~serverStore[i].status.available
        /\ serverStore' = [serverStore EXCEPT ![i].status = Joined(i, "x")]
        /\ Changed
        /\ UNCHANGED <<cluster, podStore, removals>>

Next ==
    \/ Reconcile
    \/ SetReplicas
    \/ AgentReport
    \/ PodReadiness

Spec == Init /\ [][Next]_vars

\* A cluster that bootstraps and scales, with Members removed behind the
\* reconciler's back and no failing store call.
NextScale ==
    \/ ReconcileOK
    \/ SetScale
    \/ AgentJoin
    \/ RemoveMember

SpecScale == Init /\ [][NextScale]_vars

\* A cluster of MaxMembers Members that has bootstrapped in the order of the
\* names, Members 0..k-1 having joined, and has no pods yet.
BootstrappedServers(k) ==
    [i \in Idx |->
        [exists |-> TRUE,
         spec |-> [clusterID |-> IF i = 0 THEN "" ELSE "x",
                   initPeers |-> [j \in 1..(IF i < k THEN i ELSE k) |-> AddressOf(j - 1)]],
         status |-> IF i < k THEN Joined(i, "x") ELSE ZeroServerStatus]]

InitRepl ==
    \E k \in 0..MaxMembers :
        /\ serverStore = BootstrappedServers(k)
        /\ podStore = [i \in Idx |-> NoPod]
        /\ cluster = [spec |-> [replicas |-> MaxMembers, podCfg |-> "v1"],
                      status |-> Project([ZeroStatus EXCEPT !.clusterID = "x"],
                                         getServers(serverStore), <<>>)]
        /\ removals = 0
        /\ changes = 0
        /\ faults = 0
        /\ cyc = Idle
        /\ NoneInFlight

\* The user scales the cluster to zero, or back.
SetZero ==
    \E n \in {0, MaxMembers} :
        /\ n # cluster.spec.replicas
        /\ cluster' = [cluster EXCEPT !.spec.replicas = n]
        /\ Changed
        /\ UNCHANGED <<serverStore, podStore, removals>>

\* A bootstrapped cluster whose pods are created, become ready and are
\* replaced when the spec they are built from changes, with store calls
\* that fail.
NextRepl ==
    \/ Reconcile
    \/ PodReadiness
    \/ SetPodCfg
    \/ SetZero

SpecRepl == InitRepl /\ [][NextRepl]_vars

\* ------------------------------------------------------------- convergence
\* A new cluster with any spec.replicas of 1..MaxScale, which stays as set.
InitConverge ==
    \E n \in 1..MaxScale :
        /\ cluster = [spec |-> [replicas |-> n, podCfg |-> "v1"], status |-> ZeroStatus]
        /\ serverStore = [i \in Idx |-> NoServer]
        /\ podStore = [i \in Idx |-> NoPod]
        /\ removals = 0
        /\ changes = 0
        /\ faults = 0
        /\ cyc = Idle
        /\ NoneInFlight

\* A pod that is not ready becomes ready.
PodBecomesReady ==
    \E i \in Idx :
        /\ podStore[i].exists
        /\ ~podStore[i].ready
        /\ podStore' = [podStore EXCEPT ![i].ready = TRUE]
        /\ Changed
        /\ UNCHANGED <<cluster, serverStore, removals>>

\* A call of Reconcile in which every store call succeeds would change the
\* state: ENABLED <<ReconcileOK>>_vars, computed from Cycle.
CanProgress ==
    LET r == Cycle(cluster, getServers(serverStore), getServerPods(podStore),
                   serverStore, podStore, NoFault)
    IN  <<r.status, r.servers, r.pods, r.log, 0>>
            # <<cluster.status, serverStore, podStore, cyc, changes>>

\* The scheduler keeps calling Reconcile: WF_vars(ReconcileOK), with ENABLED
\* written as CanProgress.
ReconcileKeepsRunning ==
    []<>(~CanProgress) \/ []<><<ReconcileOK>>_vars

NextConverge ==
    \/ ReconcileOK
    \/ AgentJoin
    \/ PodBecomesReady

\* A new cluster whose spec.replicas stays as set: Reconcile keeps being
\* called and its store calls succeed, the bootstrap agent reports every
\* Member as joined to the one cluster, every pod becomes ready.
SpecConverge ==
    /\ InitConverge
    /\ [][NextConverge]_vars
    /\ ReconcileKeepsRunning
    /\ WF_vars(AgentJoin)
    /\ WF_vars(PodBecomesReady)

\* ------------------------------------------------------------- replacement
\* A running cluster at the moment its pod configuration is changed: k >= 3
\* of the MaxMembers Members have joined, each of them has a pod of the old
\* configuration, ready or not, and the status is the one of that state.
InitUpgrade ==
    \E k \in 3..MaxMembers : \E ready \in [0..(k - 1) -> BOOLEAN] :
        /\ serverStore = BootstrappedServers(k)
        /\ podStore = [i \in Idx |->
                          IF i < k THEN [exists |-> TRUE, ready |-> ready[i], cfg |-> "v1"]
                          ELSE NoPod]
        /\ cluster = [spec |-> [replicas |-> MaxMembers, podCfg |-> "v2"],
                      status |-> Project([ZeroStatus EXCEPT !.clusterID = "x"],
                                         getServers(serverStore),
                                         getServerPods(podStore))]
        /\ removals = 0
        /\ changes = 0
        /\ faults = 0
        /\ cyc = Idle
        /\ NoneInFlight

\* A pod that was created with the desired configuration becomes ready.
NewPodBecomesReady ==
    \E i \in Idx :
        /\ podStore[i].exists
        /\ podStore[i].cfg = cluster.spec.podCfg
        /\ ~podStore[i].ready
        /\ podStore' = [podStore EXCEPT ![i].ready = TRUE]
        /\ Changed
        /\ UNCHANGED <<cluster, serverStore, removals>>

NextUpgrade ==
    \/ ReconcileOK
    \/ NewPodBecomesReady

\* The pods of a running cluster are replaced after a change of their
\* configuration: Reconcile keeps being called and its store calls succeed,
\* every pod it creates becomes ready.
SpecUpgrade ==
    /\ InitUpgrade
    /\ [][NextUpgrade]_vars
    /\ ReconcileKeepsRunning
    /\ WF_vars(NewPodBecomesReady)

\* ------------------------------------------------------------ interleaving
\* Worker w starts a Reconcile call: it gets the Cluster object.
GetCluster(w) ==
    /\ inflight[w].phase = "none"
    /\ inflight' = [inflight EXCEPT ![w] = [NoObservation EXCEPT !.phase = "got",
                                                                  !.c = cluster]]
    /\ UNCHANGED <<cluster, serverStore, podStore, removals, changes, faults, cyc,
                   maxTarget>>

\* The call of worker w lists the Members and the Pods.
ListObjects(w) ==
    /\ inflight[w].phase = "got"
    /\ inflight' = [inflight EXCEPT ![w].phase = "listed",
                                    ![w].servers = getServers(serverStore),
                                    ![w].serverPods = getServerPods(podStore)]
    /\ UNCHANGED <<cluster, serverStore, podStore, removals, changes, faults, cyc,
                   maxTarget>>

\* The call of worker w projects the status from what it has read, writes
\* Members and Pods to the store as it is now, and returns.  The store
\* rejects the update of a Cluster object that has changed since the call
\* got it.
Finish(w) ==
    LET o == inflight[w]
        fault == [NoFault EXCEPT !.updateStatus = (cluster # o.c)]
        r == Cycle(o.c, o.servers, o.serverPods, serverStore, podStore, fault)
        target == targetServersOf(o.c.spec.replicas, r.log.mem)
    IN  /\ o.phase = "listed"
        /\ cluster' = IF r.log.statusSaved
                      THEN [cluster EXCEPT !.status = r.status] ELSE cluster
        /\ serverStore' = r.servers
        /\ podStore' = r.pods
        /\ cyc' = r.log
        /\ changes' = 0
        /\ maxTarget' = IF r.log.path = "acted" /\ target > maxTarget
                        THEN target ELSE maxTarget
        /\ inflight' = [inflight EXCEPT ![w] = NoObservation]
        /\ UNCHANGED <<removals, faults>>

\* The user raises or lowers spec.replicas while calls are in progress.
Rescale ==
    \E n \in 1..MaxRescale :
        /\ n # cluster.spec.replicas
        /\ cluster' = [cluster EXCEPT !.spec.replicas = n]
        /\ Changed
        /\ UNCHANGED <<serverStore, podStore, removals>>

NextInterleaved ==
    \/ \E w \in Workers : GetCluster(w)
    \/ \E w \in Workers : ListObjects(w)
    \/ \E w \in Workers : Finish(w)
    \/ Rescale
    \/ AgentJoin

\* Reconcile calls of MaxWorkers workers for the one cluster, interleaved at
\* the calls to the store, while the cluster bootstraps and scales.
SpecInterleaved == Init /\ [][NextInterleaved]_vars

\* ================================================================== claims
\* ------------------------------------------------------ helpers of claims
\* Names of the Members in the store.
Members == {i \in Idx : serverStore[i].exists}

\* The cycle that just returned got both lists and projected the status.
Projected == cyc.path \in {"earlyExit", "acted"}

\* Names and objects the cycle listed.
ListedNames == {cyc.servers[k].name : k \in 1..Len(cyc.servers)}
Listed(name) == cyc.servers[CHOOSE k \in 1..Len(cyc.servers) : cyc.servers[k].name = name]

\* Names of the Members the cycle created.
CreatedNames ==
    {cyc.serverOps[k].name : k \in {j \in 1..Len(cyc.serverOps) : cyc.serverOps[j].op = "created"}}

\* The listed Members that report a ClusterID, and the first of them in the
\* order of the names ("" when there is none).
Reporting == {n \in ListedNames : Listed(n).status.clusterID # ""}
FirstReportedID ==
    IF Reporting = {} THEN ""
    ELSE Listed(CHOOSE n \in Reporting : \A m \in Reporting \ {n} : NameLess(n, m)).status.clusterID

\* ---------------------------------------------------------------------- C1
\* Positions in the pod log of the calls that replaced a pod the cycle had
\* listed.
ReplacedOps == {k \in 1..Len(cyc.podOps) : cyc.podOps[k].existed}

\* Names of the listed pods that were ready and that the cycle left alone.
UndisturbedReady ==
    {cyc.serverPods[k].name : k \in {j \in 1..Len(cyc.serverPods) : cyc.serverPods[j].ready}}
    \ {cyc.podOps[k].name : k \in ReplacedOps}

\* Every logged pod call saw the working count: the ready pods listed minus
\* the pods created or replaced before it in the same cycle.
WorkingCountIsStartMinusOps ==
    \A k \in 1..Len(cyc.podOps) :
        cyc.podOps[k].nAvailable = cyc.mem.availableServers - (k - 1)

\* A listed pod is replaced only while the working count exceeds the quorum,
\* and a quorum of ready pods that was there at the start is left alone.
QuorumSafe ==
    /\ WorkingCountIsStartMinusOps
    /\ \A k \in ReplacedOps : cyc.podOps[k].nAvailable > cyc.mem.clusterQuorum
    /\ cyc.mem.availableServers >= cyc.mem.clusterQuorum
          => Cardinality(UndisturbedReady) >= cyc.mem.clusterQuorum

\* C1 as claimed: in any Reconcile cycle with clusterSize >= 3 an existing
\* instance is replaced only while the working availability count is above
\* clusterQuorum, and a quorum of ready instances is left undisturbed.
C1_AnyCycleQuorumSafe ==
    (cyc.path = "acted" /\ cyc.mem.clusterSize >= 3) => QuorumSafe

\* C1 (amended): in any Reconcile cycle with clusterSize >= 3 and
\* spec.replicas # 0, an existing instance is replaced only while the working
\* availability count (ready instances listed minus the instances created or
\* replaced earlier in the cycle) is above clusterQuorum; so if
\* availableServers >= clusterQuorum at the start, at least clusterQuorum
\* ready instances are left undisturbed.
C1_QuorumSafeReplacement ==
    (cyc.path = "acted" /\ cyc.mem.clusterSize >= 3 /\ cluster.spec.replicas # 0)
        => QuorumSafe

\* A cycle of a cluster of at least 3 that replaced a ready pod and skipped
\* another pod that also needed replacing.
C1_Witness ==
    /\ cyc.path = "acted"
    /\ cyc.mem.clusterSize >= 3
    /\ cluster.spec.replicas # 0
    /\ \E k \in ReplacedOps :
          \E j \in 1..Len(cyc.serverPods) :
              cyc.serverPods[j].name = cyc.podOps[k].name /\ cyc.serverPods[j].ready
    /\ \E i \in Idx : podStore[i].exists /\ podStore[i].cfg # cluster.spec.podCfg
                      /\ serverStore[i].status.available

\* ---------------------------------------------------------------------- C2
\* C2: from a cluster with no Members, whatever spec.replicas is, there is at
\* most one Member for as long as cluster.status.clusterID is null, and a
\* cycle that reaches the scaling step with a null clusterID and no Member
\* creates exactly one.
C2_BootstrapSingularity ==
    /\ cluster.status.clusterID = "" => Cardinality(Members) <= 1
    /\ (cyc.path = "acted" /\ cyc.err = "nil" /\ cyc.mem.clusterID = ""
        /\ Len(cyc.servers) = 0)
          => Cardinality(CreatedNames) = 1 /\ Cardinality(Members) = 1

\* A cycle of a cluster with spec.replicas = MaxScale and no ClusterID that
\* created the one seed Member.
C2_Witness ==
    /\ cyc.path = "acted"
    /\ cyc.mem.clusterID = ""
    /\ Len(cyc.servers) = 0
    /\ cluster.spec.replicas = MaxScale
    /\ Cardinality(CreatedNames) = 1

\* ---------------------------------------------------------------------- C3
\* C3: a cycle that starts with a null cluster.status.clusterID sets it to the
\* ClusterID of the first Member, in the order of the names, that reports
\* one; a cycle that starts with a non-null clusterID leaves it as it is,
\* whatever the Members report.  (The status a cycle sets reaches the store
\* when its status update succeeds.)
C3_ClusterIDSetOnce ==
    /\ (Projected /\ cyc.orig.clusterID = "")
          => /\ cyc.mem.clusterID = FirstReportedID
             /\ cluster.status.clusterID = (IF cyc.statusSaved THEN FirstReportedID ELSE "")
    /\ (cyc.path # "idle" /\ cyc.orig.clusterID # "")
          => /\ cluster.status.clusterID = cyc.orig.clusterID
             /\ cyc.mem.clusterID = cyc.orig.clusterID

\* A cycle that saved the status of a cluster with a ClusterID while the
\* first reporting Member reported another one.
C3_Witness ==
    /\ Projected
    /\ cyc.statusSaved
    /\ cyc.orig.clusterID # ""
    /\ FirstReportedID # ""
    /\ FirstReportedID # cyc.orig.clusterID
    /\ cluster.status.clusterID = cyc.orig.clusterID

\* ---------------------------------------------------------------------- C4
\* The cycle listed two Members with different ClusterIDs, or a Member whose
\* ClusterID is not the one the Cluster had.
Conflict ==
    \/ \E n, m \in Reporting : Listed(n).status.clusterID # Listed(m).status.clusterID
    \/ cyc.orig.clusterID # ""
       /\ \E n \in Reporting : Listed(n).status.clusterID # cyc.orig.clusterID

\* C4: in a cycle that lists two Members with different non-null ClusterIDs,
\* or a Member whose non-null ClusterID differs from the Cluster's, the Failed
\* condition after status projection has the reason Inconsistent and names an
\* offending Member with its ClusterID and the expected one, also when a
\* Member reports failed in the same cycle.
C4_ConflictIsInconsistent ==
    (Projected /\ Conflict)
        => /\ cyc.mem.failed.set
           /\ cyc.mem.failed.reason = "Inconsistent"
           /\ Len(cyc.mem.failed.servers) = 1
           /\ cyc.mem.failed.servers[1] \in Reporting
           /\ cyc.mem.failed.got = Listed(cyc.mem.failed.servers[1]).status.clusterID
           /\ cyc.mem.failed.expected = cyc.mem.clusterID
           /\ cyc.mem.failed.expected # ""
           /\ cyc.mem.failed.got # cyc.mem.failed.expected

\* A cycle that listed a Member with a foreign ClusterID and a Member that
\* reports failed.
C4_Witness ==
    /\ Projected
    /\ Conflict
    /\ \E n \in ListedNames : Listed(n).status.failed
    /\ cyc.mem.failed.reason = "Inconsistent"

\* ---------------------------------------------------------------------- C5
\* C5: in every persisted Cluster status, also after cycles that exit early
\* or return an error, clusterQuorum = ceil(clusterSize / 2) and Available
\* holds iff availableServers >= clusterQuorum and availableServers > 0; the
\* status a cycle projects has clusterSize = the available Members and
\* availableServers = the ready pods it listed.
C5_StatusInvariant ==
    LET st == cluster.status
    IN  /\ 2 * st.clusterQuorum >= st.clusterSize
        /\ 2 * (st.clusterQuorum - 1) < st.clusterSize
        /\ st.available <=> (st.availableServers >= st.clusterQuorum /\ st.availableServers > 0)
        /\ Projected =>
              /\ cyc.mem.clusterSize =
                    Cardinality({n \in ListedNames : Listed(n).status.available})
              /\ cyc.mem.availableServers =
                    Cardinality({k \in 1..Len(cyc.serverPods) : cyc.serverPods[k].ready})
              /\ cyc.statusSaved => st = cyc.mem

\* A saved status with clusterSize 5, quorum 3 and 2 ready pods: not Available.
C5_Witness ==
    /\ cyc.statusSaved
    /\ cluster.status.clusterSize = 5
    /\ cluster.status.clusterQuorum = 3
    /\ cluster.status.availableServers = 2
    /\ ~cluster.status.available

\* ---------------------------------------------------------------------- C6
\* C6: a cycle whose status projection makes the status differ from the one
\* it read writes no Member and no pod: the stores are as it listed them, and
\* its one write is the update of the Cluster status.
C6_EarlyExit ==
    (Projected /\ cyc.mem # cyc.orig)
        => /\ cyc.serverOps = <<>>
           /\ cyc.podOps = <<>>
           /\ getServers(serverStore) = cyc.servers
           /\ getServerPods(podStore) = cyc.serverPods
           /\ cyc.statusWrites = 1

\* A cycle that changed the status and left an available Member without the
\* pod that a cycle that acts would create.
C6_Witness ==
    /\ Projected
    /\ cyc.mem # cyc.orig
    /\ cluster.spec.replicas # 0
    /\ \E i \in Members : serverStore[i].status.available /\ ~podStore[i].exists

\* ---------------------------------------------------------------------- C7
\* C7 as claimed: in a single Reconcile cycle at most one already existing
\* instance is replaced.
C7_AtMostOneReplaced ==
    (cyc.path = "acted" /\ cluster.spec.replicas # 0) => Cardinality(ReplacedOps) <= 1

\* C7 (amended): in a single Reconcile cycle with clusterSize >= 3 and
\* spec.replicas # 0, the number of already existing instances replaced is at
\* most availableServers - clusterQuorum (none when that is not positive),
\* because each create or replace decrements the working count; with
\* clusterSize 5, quorum 3 and availableServers 4 that is at most one.
C7_ReplacedWithinMargin ==
    (cyc.path = "acted" /\ cyc.mem.clusterSize >= 3 /\ cluster.spec.replicas # 0)
        => LET margin == cyc.mem.availableServers - cyc.mem.clusterQuorum
           IN  Cardinality(ReplacedOps) <= (IF margin > 0 THEN margin ELSE 0)

\* clusterSize 5, quorum 3, availableServers 4: one pod replaced, and a second
\* one that needed replacing left in place.
C7_Witness ==
    /\ cyc.path = "acted"
    /\ cluster.spec.replicas # 0
    /\ cyc.mem.clusterSize = 5
    /\ cyc.mem.clusterQuorum = 3
    /\ cyc.mem.availableServers = 4
    /\ Cardinality(ReplacedOps) = 1
    /\ \E i \in Idx : podStore[i].exists /\ podStore[i].cfg # cluster.spec.podCfg
                      /\ serverStore[i].status.available

\* ---------------------------------------------------------------------- C8
\* C8: a Member a cycle creates is named <cluster>-<i> for the smallest
\* i >= 0 that is not the name of a Member the cycle listed.
C8_FirstUnusedName ==
    \A n \in CreatedNames :
        /\ n \notin ListedNames
        /\ \A j \in 0..(n - 1) : j \in ListedNames

\* A cycle that listed <cluster>-0 and <cluster>-2 and created <cluster>-1.
C8_Witness ==
    /\ ListedNames = {0, 2}
    /\ CreatedNames = {1}

\* ---------------------------------------------------------------------- C9
\* The target of the scaling step of a cluster that has its ClusterID.
ClaimedTarget == IF cluster.spec.replicas > 1 THEN cluster.spec.replicas ELSE 1

\* C9: a cycle that reaches the scaling step with a non-null clusterID and
\* fewer Members than target = max(replicas, 1) creates one Member for each
\* missing one, so that the cluster has target Members after that cycle.
C9_ScaleUpInOneCycle ==
    (cyc.path = "acted" /\ cyc.err = "nil" /\ cyc.mem.clusterID # ""
     /\ Len(cyc.servers) < ClaimedTarget)
        => /\ Cardinality(CreatedNames) = ClaimedTarget - Len(cyc.servers)
           /\ Cardinality(Members) = ClaimedTarget

\* --------------------------------------------------------------------- C10
\* The raft addresses the listed Members other than `name` report, in the
\* order of the names.
RECURSIVE AddressesOf(_)
AddressesOf(names) ==
    IF names = <<>> THEN <<>>
    ELSE <<Listed(Head(names)).status.raftAddress>> \o AddressesOf(Tail(names))

ReportedPeers(name) ==
    AddressesOf(SortNames({n \in ListedNames \ {name} : Listed(n).status.raftAddress # 0}))

\* C10: a Member a cycle creates gets as initPeers the raft addresses of the
\* other Members the cycle listed that report one, in the order of the names;
\* a cycle does not change the initPeers of a Member it listed.
C10_PeerCapture ==
    /\ \A n \in CreatedNames : serverStore[n].spec.initPeers = ReportedPeers(n)
    /\ \A n \in ListedNames :
          serverStore[n].exists /\ serverStore[n].spec = Listed(n).spec

\* A cycle that created a Member while it listed a Member with a raft address
\* and a Member without one, and a listed Member whose initPeers lack the
\* address of a Member that reports one.
C10_Witness ==
    /\ \E n \in CreatedNames :
          /\ Len(serverStore[n].spec.initPeers) >= 1
          /\ \E m \in ListedNames : Listed(m).status.raftAddress = 0
    /\ \E n, m \in ListedNames :
          /\ NameLess(n, m)
          /\ Listed(m).status.raftAddress # 0
          /\ Len(Listed(n).spec.initPeers) = 0

\* --------------------------------------------------------------------- C11
\* Names of the pods the cycle listed.
ListedPodNames == {cyc.serverPods[k].name : k \in 1..Len(cyc.serverPods)}

\* C11 as claimed: every cycle with spec.replicas = 0 deletes every pod it
\* listed and creates or replaces none.
C11_EveryCycleDeletesAll ==
    (cyc.path # "idle" /\ cluster.spec.replicas = 0)
        => /\ Len(cyc.podOps) = Len(cyc.serverPods)
           /\ \A k \in 1..Len(cyc.podOps) :
                 cyc.podOps[k].op = "deleted" /\ cyc.podOps[k].name = cyc.serverPods[k].name
           /\ \A n \in ListedPodNames : ~podStore[n].exists

\* C11 (amended): a cycle with spec.replicas = 0 issues pod calls only to
\* delete the pods it listed, in the order of the list, and never creates or
\* replaces one; when it reaches instance reconciliation and no store call fails it
\* deletes every pod it listed, whatever the availability of the Members, the
\* readiness of the pods, clusterSize and the quorum margin, and leaves no pod.
C11_ScaleToZero ==
    (cyc.path # "idle" /\ cluster.spec.replicas = 0)
        => /\ Len(cyc.podOps) <= Len(cyc.serverPods)
           /\ \A k \in 1..Len(cyc.podOps) :
                 /\ cyc.podOps[k].op = "deleted"
                 /\ cyc.podOps[k].name = cyc.serverPods[k].name
                 /\ ~podStore[cyc.podOps[k].name].exists
           /\ (cyc.path = "acted" /\ cyc.err = "nil")
                 => /\ Len(cyc.podOps) = Len(cyc.serverPods)
                    /\ \A i \in Idx : ~podStore[i].exists

\* A cycle with spec.replicas = 0 of a cluster of 5 with no quorum margin
\* that deleted its pods, ready ones and one that was not ready.
C11_Witness ==
    /\ cyc.path = "acted"
    /\ cyc.err = "nil"
    /\ cluster.spec.replicas = 0
    /\ cyc.mem.clusterSize = 5
    /\ cyc.mem.availableServers = cyc.mem.clusterQuorum
    /\ Len(cyc.podOps) >= 4
    /\ \E k \in 1..Len(cyc.serverPods) : ~cyc.serverPods[k].ready
    /\ \A i \in Idx : ~podStore[i].exists

\* --------------------------------------------------------------------- C12
\* The Member and pod calls of the cycle that changed the store: Members
\* created or updated, pods created or deleted.
Writes ==
    Cardinality({k \in 1..Len(cyc.serverOps) : cyc.serverOps[k].op # "unchanged"})
    + Len(cyc.podOps)

\* The pod the cycle listed under that name.
ListedPod(name) ==
    cyc.serverPods[CHOOSE k \in 1..Len(cyc.serverPods) : cyc.serverPods[k].name = name]

\* The cycle found nothing left to do: as many Members as the target (one
\* while the ClusterID is null), and for spec.replicas = 0 no pod, else for
\* every Available Member a pod of the configuration the spec asks for.
Settled ==
    /\ Len(cyc.servers) >= (IF cyc.mem.clusterID = "" THEN 1 ELSE ClaimedTarget)
    /\ IF cluster.spec.replicas = 0
       THEN Len(cyc.serverPods) = 0
       ELSE \A n \in ListedNames :
               Listed(n).status.available
                   => n \in ListedPodNames /\ ListedPod(n).cfg = cluster.spec.podCfg

\* C12 as claimed: of two Reconcile runs in a row with no change of the store
\* between them, both without a failing store call, the second issues no
\* Member or pod create, update or delete.
C12_SecondRunIssuesNothing ==
    [][(cyc.path # "idle" /\ cyc.err = "nil" /\ cyc'.path # "idle" /\ cyc'.err = "nil")
          => Writes' = 0]_vars

\* A run that ended without error and wrote nothing, status included.
Quiet == cyc.path # "idle" /\ cyc.err = "nil" /\ Writes = 0 /\ cyc.statusWrites = 0

\* C12 (amended): idempotence holds at the fixpoint.  A run that finds
\* nothing left to do (Settled) issues no Member or pod call, and a run that
\* follows, with no change between them, a run that ended without error and
\* wrote nothing issues no Member or pod call and leaves the stores as they
\* are.
C12_IdempotentAtFixpoint ==
    /\ []((cyc.path # "idle" /\ Settled) => Writes = 0)
    /\ [][(Quiet /\ cyc'.path # "idle")
             => (Writes' = 0 /\ serverStore' = serverStore /\ podStore' = podStore)]_vars

\* A run that found two Available Members with their pods and nothing to do.
C12_Witness ==
    /\ cyc.path = "acted"
    /\ Settled
    /\ Quiet
    /\ cluster.spec.replicas = 2
    /\ Len(cyc.serverPods) = 2
    /\ \A n \in ListedNames : Listed(n).status.available

\* --------------------------------------------------------------------- C13
\* Names of the listed Members that report failed.
FailedNames == {n \in ListedNames : Listed(n).status.failed}

\* C13: in a cycle in which one or more Members report failed and there is no
\* ClusterID mismatch, the Failed condition after status projection has the
\* reason Bootstrap and its message names every Member that reports failed.
C13_BootstrapListsAll ==
    (Projected /\ FailedNames # {} /\ ~Conflict)
        => /\ cyc.mem.failed.set
           /\ cyc.mem.failed.reason = "Bootstrap"
           /\ {cyc.mem.failed.servers[k] : k \in 1..Len(cyc.mem.failed.servers)} = FailedNames

\* --------------------------------------------------------------------- C14
\* C14: a Reconcile call in which the list of Members or the list of pods
\* fails returns that error, also when its status update fails as well, and
\* issues no Member and no pod call: both stores are as they were.
C14_ListErrorAborts ==
    [][\A fault \in Faults :
          (fault.list # "none" /\ ReconcileWith(fault))
              => /\ cyc'.err = (IF fault.list = "servers" THEN "listServers" ELSE "listPods")
                 /\ cyc'.serverOps = <<>>
                 /\ cyc'.podOps = <<>>
                 /\ serverStore' = serverStore
                 /\ podStore' = podStore]_vars

\* A call whose list of pods failed while an Available Member had no pod,
\* which a call that acts would have created.
C14_Witness ==
    /\ cyc.path = "listPodsError"
    /\ cyc.err = "listPods"
    /\ cluster.spec.replicas # 0
    /\ Len(cyc.servers) >= 3
    /\ \E i \in Members : serverStore[i].status.available /\ ~podStore[i].exists

\* --------------------------------------------------------------------- C15
\* C15: no Reconcile call removes a Member from the store, whatever
\* spec.replicas is and however it changed: the Members after the call are
\* the Members before it and the Members it created.
C15_MembersNeverDeleted ==
    [][cyc'.path # "idle"
          => /\ \A i \in Idx : serverStore[i].exists => serverStore'[i].exists
             /\ {i \in Idx : serverStore'[i].exists}
                   = {i \in Idx : serverStore[i].exists}
                     \cup {cyc'.serverOps[k].name :
                              k \in {j \in 1..Len(cyc'.serverOps) :
                                        cyc'.serverOps[j].op = "created"}}]_vars

\* A call that ran to the end with spec.replicas = 0 and two Members, and
\* deleted a pod.
C15_Witness ==
    /\ cyc.path = "acted"
    /\ cyc.err = "nil"
    /\ cluster.spec.replicas = 0
    /\ Len(cyc.servers) = 2
    /\ Cardinality(Members) = 2
    /\ Len(cyc.podOps) >= 1

\* --------------------------------------------------------------------- C16
\* C16: a Reconcile call attempts one update of the Cluster status when the
\* status it holds at its end differs from the one it read, and none when it
\* does not.  When the update fails the stored status stays as it was, and
\* the call returns the error it had already failed with, or the error of
\* the update when it had none.
C16_StatusSave ==
    [][\A fault \in Faults :
          ReconcileWith(fault)
              => LET changed == cyc'.mem # cyc'.orig
                     primary == IF fault.list = "servers" THEN "listServers"
                                ELSE IF fault.list = "pods" THEN "listPods"
                                ELSE "nil"
                 IN  /\ cyc'.orig = cluster.status
                     /\ cyc'.statusWrites = (IF changed THEN 1 ELSE 0)
                     /\ ~changed => cluster'.status = cluster.status
                     /\ (changed /\ ~fault.updateStatus) => cluster'.status = cyc'.mem
                     /\ (changed /\ fault.updateStatus)
                           => /\ cluster'.status = cluster.status
                              /\ cyc'.err = (IF primary # "nil" THEN primary
                                             ELSE "updateStatus")]_vars

\* A call whose list of Members failed and whose update of the status, which
\* the call had changed by unsetting Failed, failed as well.
C16_Witness ==
    /\ cyc.path = "listServersError"
    /\ cyc.mem # cyc.orig
    /\ cyc.statusWrites = 1
    /\ ~cyc.statusSaved
    /\ cyc.err = "listServers"
    /\ cluster.status.failed.set

\* --------------------------------------------------------------------- C17
\* C17: a cycle creates or replaces the pod of a Member only when it listed
\* that Member as Available; a pod is never created for a Member that is not.
C17_PodOnlyForAvailable ==
    \A k \in 1..Len(cyc.podOps) :
        (cluster.spec.replicas # 0 \/ cyc.podOps[k].op = "created")
            => /\ cyc.podOps[k].name \in ListedNames
               /\ Listed(cyc.podOps[k].name).status.available

\* A cycle that created the pod of an Available Member and left a Member
\* that is not Available without one.
C17_Witness ==
    /\ cyc.path = "acted"
    /\ \E k \in 1..Len(cyc.podOps) : cyc.podOps[k].op = "created"
    /\ \E n \in ListedNames : ~Listed(n).status.available /\ ~podStore[n].exists

\* --------------------------------------------------------------------- C18
\* A Member in the store reports failed, or the ClusterIDs that the Members
\* and the Cluster report do not agree.
StoreFailing ==
    \/ \E i \in Members : serverStore[i].status.failed
    \/ Cardinality(({serverStore[i].status.clusterID : i \in Members}
                    \cup {cluster.status.clusterID}) \ {""}) > 1

\* C18: a Reconcile call that starts with Failed set in the stored status,
\* while a Member reports failed or a ClusterID mismatch exists, leaves Failed
\* set in the stored status, on every path of the call.
C18_FailedPersists ==
    [][(cyc'.path # "idle" /\ cluster.status.failed.set /\ StoreFailing)
          => cluster'.status.failed.set]_vars

\* --------------------------------------------------------------------- C19
\* No Member in the store reports failed, and the ClusterIDs that the
\* Members report and the one the cycle read from the Cluster agree.
Healthy ==
    /\ \A i \in Members : ~serverStore[i].status.failed
    /\ Cardinality(({serverStore[i].status.clusterID : i \in Members}
                    \cup {cyc.orig.clusterID}) \ {""}) <= 1

\* C19: while no Member reports failed and the ClusterIDs agree, every cycle
\* ends with Failed unset in the status it holds, and with Failed unset in
\* the stored status once its status update, when it attempts one, succeeds.
C19_FailedClears ==
    (cyc.path # "idle" /\ Healthy)
        => /\ ~cyc.mem.failed.set
           /\ (cyc.statusSaved \/ cyc.statusWrites = 0) => ~cluster.status.failed.set

\* A cycle that read a status with Failed set, projected the status of a
\* recovered cluster and saved it.
C19_Witness ==
    /\ Projected
    /\ Healthy
    /\ cyc.orig.failed.set
    /\ Len(cyc.servers) >= 1
    /\ cyc.statusSaved
    /\ ~cluster.status.failed.set

\* --------------------------------------------------------------------- C20
\* The spec.clusterID of every Member is the ClusterID of the Cluster.
ClusterIDPropagated ==
    \A i \in Members : serverStore[i].spec.clusterID = cluster.status.clusterID

\* C20: once cluster.status.clusterID is non-null, repeated Reconcile cycles
\* eventually make spec.clusterID of every Member, the seed Member included,
\* equal to it.  A run that ended without error and wrote nothing leaves the
\* store as it read it, so every run after it does the same: by then the
\* ClusterID has reached every Member.
C20_ClusterIDPropagates ==
    (Quiet /\ cluster.status.clusterID # "") => ClusterIDPropagated

\* --------------------------------------------------------------------- C24
\* C24: with Members removed from the store by something other than the
\* reconciler, a name that a Member once had is never given to a Member
\* created later: the index of a Member a cycle creates is above the index of
\* every Member the cycle listed.  (A Member is only ever created under the
\* first index that no listed Member has, so every index below that of a
\* listed Member has been given to a Member before.)
C24_IndexOnlyAdvances ==
    \A n \in CreatedNames : \A m \in ListedNames : m < n

\* --------------------------------------------------------------------- C21
\* The cluster has as many Members as spec.replicas, every Member has its
\* pod and no other pod exists, and the persisted status says Available.
Converged ==
    /\ Cardinality(Members) = cluster.spec.replicas
    /\ \A i \in Idx : podStore[i].exists <=> i \in Members
    /\ cluster.status.available

\* C21: a new cluster with no Members and a constant spec.replicas = N >= 1,
\* whose Reconcile keeps being called with store calls that succeed, whose
\* Members are all reported Available with one ClusterID and whose pods all
\* become ready, reaches a state with exactly N Members, one pod per Member
\* and the Cluster reported Available, and stays in such states.
C21_Convergence == <>[]Converged

\* A cluster of at least three Members has converged and a cycle has run on
\* it.
C21_Witness ==
    /\ Converged
    /\ cluster.spec.replicas >= 3
    /\ cyc.path # "idle"

\* --------------------------------------------------------------------- C23
\* Every Available Member has a pod of the desired configuration.
Upgraded ==
    \A i \in Idx :
        serverStore[i].status.available
            => (podStore[i].exists /\ podStore[i].cfg = cluster.spec.podCfg)

\* C23: in a cluster with clusterSize >= 3 whose pods have a configuration
\* other than the desired one, with Reconcile called again and again and
\* every pod that is created or replaced becoming ready, every pod is
\* eventually replaced by one of the desired configuration: the quorum guard
\* does not block the replacement forever.
C23_ReplacementProgress == <>Upgraded

\* --------------------------------------------------------------------- C22
\* The call that just returned issued a create for a Member that it had not
\* listed and that the store already held: it acted on a stale list.
StaleCreate ==
    \E k \in 1..Len(cyc.serverOps) :
        /\ cyc.serverOps[k].op # "created"
        /\ cyc.serverOps[k].name \notin ListedNames
        /\ \A j \in 1..(k - 1) : cyc.serverOps[j].name # cyc.serverOps[k].name

\* C22: with Reconcile calls for the one cluster interleaved at their store
\* calls, each acting on what it read, and no other creator of Members, the
\* cluster never has more Members than the largest target one of the calls
\* computed, and while the cluster has no ClusterID its only Member is the
\* seed <cluster>-0.
C22_MemberCountBound ==
    /\ Cardinality(Members) <= maxTarget
    /\ cluster.status.clusterID = "" => Members \subseteq {0}

\* A call acted on a stale list of Members in a cluster that scales to
\* MaxRescale: the Member it went to create was already there, and the
\* cluster has as many Members as the largest target.
C22_Witness ==
    /\ StaleCreate
    /\ maxTarget = MaxRescale
    /\ Cardinality(Members) = maxTarget

====
